---- MODULE Spec2Model ----
(***************************************************************************)
(* uv_script: the script resolver and executor (src/src/uv_script/runner.py)*)
(* over the registry of ScriptDef records, and the loader that builds the   *)
(* registry from [tool.uvs] (src/src/uv_script/config.py).                  *)
(*                                                                          *)
(* Spec is a call of run_script, LoaderSpec a call of load_config and       *)
(* ResolveSpec a call of resolve_steps with its recursion made explicit.    *)
(*                                                                          *)
(* A Python str is a sequence of one-character strings, so that shlex.split *)
(* and shlex.quote can be modelled character by character.  A Python value  *)
(* that may be None is a record [none, val].  A dict is the sequence of its  *)
(* (key, value) pairs in insertion order, the order in which Python iterates *)
(* over it.                                                                  *)
(***************************************************************************)
EXTENDS Integers, Sequences, FiniteSets, TLC

VARIABLES
    all_scripts,   \* run_script argument: the registry, name -> ScriptDef
    script,        \* run_script argument: the target ScriptDef
    extra_args,    \* run_script argument: list[str] | None
    editable,      \* run_script argument: list[str] | None
    features,      \* run_script argument: list[str] | None
    verbose,       \* run_script argument: bool
    pc,            \* position of run_script: "call", "loop", "wait", "returned", "raised"
    steps,         \* run_script local: the resolved (command, env) pairs
    i,             \* run_script local: the index of the for loop (0-based)
    calls,         \* every subprocess.run call made so far: [args, env, cmd_str, child]
    running,       \* number of child processes that have not exited yet
    exits,         \* the returncode of every child that has exited, in order
    stderr,        \* the lines printed to sys.stderr
    ret,           \* the value run_script returned (meaningful when pc = "returned")
    error,         \* the exception that left run_script (meaningful when pc = "raised")
    uvs_table,     \* load_config local: the [tool.uvs] table of pyproject.toml
    cfg_scripts,   \* load_config local `scripts`: the dict of ScriptDef built so far
    config,        \* the UvsConfig load_config returned, None before
    stack,         \* the active calls of resolve_steps, the outermost first
    execvp,        \* the file system: PATH string -> how the search of "uv" along it ends
    symlinks,      \* the file system: the symbolic links, (path, target) pairs
    directories    \* the file system: the paths of the directories

\* the variables of a call of run_script
run_vars == <<all_scripts, script, extra_args, editable, features, verbose,
              pc, steps, i, calls, running, exits, stderr, ret, error>>

\* the variables of a call of load_config (with pc and error)
loader_vars == <<uvs_table, cfg_scripts, config>>

\* the variables of the recursion of resolve_steps (with all_scripts, script,
\* pc, steps and error)
resolver_vars == <<stack>>

\* the file system the program runs on, which it only reads
fs_vars == <<execvp, symlinks, directories>>

vars == <<run_vars, loader_vars, resolver_vars, fs_vars>>

----------------------------------------------------------------------------
(* Bounds of the model *)

\* the returncode of a child ranges over -MaxSignal..MaxExit: negative when a
\* signal killed the child
MaxExit == 2
MaxSignal == 1

\* no more than MaxDepth calls of resolve_steps are active in ResolveSpec
MaxDepth == 6

----------------------------------------------------------------------------
(* Python values *)

None == [none |-> TRUE, val |-> <<>>]
Some(v) == [none |-> FALSE, val |-> v]

\* Python truthiness of a list | None: `if extra_args`
Truthy(opt) == ~opt.none /\ opt.val # <<>>

\* `x or []` for a list | None
OrEmpty(opt) == IF Truthy(opt) THEN opt.val ELSE <<>>

Range(s) == {s[k] : k \in 1..Len(s)}

RECURSIVE Concat(_)
\* the concatenation of a list of lists
Concat(ss) == IF ss = <<>> THEN <<>> ELSE Head(ss) \o Concat(Tail(ss))

\* the keys of a dict
DictKeys(d) == {d[k][1] : k \in 1..Len(d)}

\* d[key], for a key of d
DictGet(d, key) == d[CHOOSE k \in 1..Len(d) : d[k][1] = key][2]

RECURSIVE DictUpdate(_, _)
\* {**a, **b}: the pairs of a, the value of b for a key of both, then the
\* pairs of b whose key is new
DictUpdate(a, b) ==
    IF b = <<>> THEN a
    ELSE LET key == Head(b)[1]
             set == IF key \in DictKeys(a)
                    THEN [k \in 1..Len(a) |-> IF a[k][1] = key THEN Head(b) ELSE a[k]]
                    ELSE Append(a, Head(b))
         IN DictUpdate(set, Tail(b))

RECURSIVE Join(_, _)
\* sep.join(strs)
Join(sep, strs) ==
    IF strs = <<>> THEN <<>>
    ELSE IF Len(strs) = 1 THEN strs[1]
    ELSE strs[1] \o sep \o Join(sep, Tail(strs))

----------------------------------------------------------------------------
(* shlex *)

\* shlex.whitespace
whitespace == {" ", "\t", "\r", "\n"}
\* shlex.quotes
quotes == {"'", "\""}
\* shlex.escape
escape == {"\\"}
\* shlex.escapedquotes
escapedquotes == {"\""}

\* the characters shlex.quote leaves alone: [\w@%+=:,./-] with re.ASCII
SafeChars ==
    {"a","b","c","d","e","f","g","h","i","j","k","l","m",
     "n","o","p","q","r","s","t","u","v","w","x","y","z",
     "A","B","C","D","E","F","G","H","I","J","K","L","M",
     "N","O","P","Q","R","S","T","U","V","W","X","Y","Z",
     "0","1","2","3","4","5","6","7","8","9","_",
     "@","%","+","=",":",",",".","/","-"}

\* s.replace("'", "'\"'\"'")
ReplaceQuote(s) ==
    Concat([k \in 1..Len(s) |->
              IF s[k] = "'" THEN <<"'", "\"", "'", "\"", "'">> ELSE <<s[k]>>])

\* shlex.quote(s)
shlex_quote(s) ==
    IF s = <<>> THEN <<"'", "'">>
    ELSE IF \A k \in 1..Len(s) : s[k] \in SafeChars THEN s
    ELSE <<"'">> \o ReplaceQuote(s) \o <<"'">>

\* The result of a call that may raise: [ok |-> TRUE, val] or [ok |-> FALSE, exc]
Ok(v) == [ok |-> TRUE, val |-> v, exc |-> <<>>]
Raise(e) == [ok |-> FALSE, val |-> <<>>, exc |-> e]

ValueError(msg) == [kind |-> "ValueError", arg |-> msg]
\* FileNotFoundError, PermissionError: the OSError of a file that cannot be run
OSError(kind, filename) == [kind |-> kind, arg |-> filename]
\* the RuntimeError Path.resolve() raises on a loop of symbolic links
RuntimeError(msg) == [kind |-> "RuntimeError", arg |-> msg]
ConfigError(name) == [kind |-> "ConfigError", arg |-> name]
NoError == [kind |-> "None", arg |-> <<>>]

RECURSIVE read_tokens(_, _, _, _, _, _, _)
\* shlex.shlex(s, posix=True) with whitespace_split and no commenters, iterated
\* to the end: the loop of shlex.read_token, one character per step.  state is
\* the lexer's state (" ", "a", a quote or the escape character), token the
\* token being built, quoted and escapedstate read_token's locals, out the
\* tokens emitted so far.
read_tokens(s, k, state, token, quoted, escapedstate, out) ==
    LET eof == k > Len(s)
        nextchar == IF eof THEN "" ELSE s[k]
    IN
    IF state = " " THEN
        IF eof THEN Ok(out)
        ELSE IF nextchar \in whitespace THEN
            IF token # <<>> \/ quoted
            THEN read_tokens(s, k + 1, " ", <<>>, FALSE, " ", Append(out, token))
            ELSE read_tokens(s, k + 1, " ", token, quoted, escapedstate, out)
        ELSE IF nextchar \in escape THEN
            read_tokens(s, k + 1, nextchar, token, quoted, "a", out)
        ELSE IF nextchar \in quotes THEN
            read_tokens(s, k + 1, nextchar, token, quoted, escapedstate, out)
        ELSE
            read_tokens(s, k + 1, "a", <<nextchar>>, quoted, escapedstate, out)
    ELSE IF state \in quotes THEN
        IF eof THEN Raise(ValueError("No closing quotation"))
        ELSE IF nextchar = state THEN
            read_tokens(s, k + 1, "a", token, TRUE, escapedstate, out)
        ELSE IF nextchar \in escape /\ state \in escapedquotes THEN
            read_tokens(s, k + 1, nextchar, token, TRUE, state, out)
        ELSE
            read_tokens(s, k + 1, state, Append(token, nextchar), TRUE, escapedstate, out)
    ELSE IF state \in escape THEN
        IF eof THEN Raise(ValueError("No escaped character"))
        ELSE
            LET kept == IF escapedstate \in quotes /\ nextchar # state
                           /\ nextchar # escapedstate
                        THEN Append(token, state) ELSE token
            IN read_tokens(s, k + 1, escapedstate, Append(kept, nextchar),
                           quoted, escapedstate, out)
    ELSE \* state = "a"
        IF eof THEN
            IF token # <<>> \/ quoted THEN Ok(Append(out, token)) ELSE Ok(out)
        ELSE IF nextchar \in whitespace THEN
            IF token # <<>> \/ quoted
            THEN read_tokens(s, k + 1, " ", <<>>, FALSE, " ", Append(out, token))
            ELSE read_tokens(s, k + 1, " ", token, quoted, escapedstate, out)
        ELSE IF nextchar \in quotes THEN
            read_tokens(s, k + 1, nextchar, token, quoted, escapedstate, out)
        ELSE IF nextchar \in escape THEN
            read_tokens(s, k + 1, nextchar, token, quoted, "a", out)
        ELSE
            read_tokens(s, k + 1, "a", Append(token, nextchar), quoted, escapedstate, out)

\* shlex.split(s)
shlex_split(s) == read_tokens(s, 1, " ", <<>>, FALSE, " ", <<>>)

----------------------------------------------------------------------------
(* ScriptDef and the registry *)

\* ScriptDef(name, commands, env, help_text, is_composite)
ScriptDef(name, commands, env, help_text, is_composite) ==
    [name |-> name, commands |-> commands, env |-> env,
     help_text |-> help_text, is_composite |-> is_composite]

\* the empty dict
EmptyEnv == <<>>

\* script names
Names == {<<"a">>, <<"b">>, <<"c">>, <<"d">>}

\* literal command lines: one token; a quoted token holding a space; an
\* unbalanced quote, which shlex.split refuses
CmdX == <<"x">>
CmdPQ == <<"p", " ", "'", "q", " ", "r", "'">>
CmdBad == <<"e", " ", "'", "x">>
\* a command line ending in a backslash: shlex.split refuses it as it is
CmdEsc == <<"f", " ", "\\">>

\* the env of the script called n
EnvOf(n) ==
    CASE n = <<"a">> -> << <<<<"M">>, <<"d", " ", "v">>>> >>
      [] n = <<"b">> -> EmptyEnv
      [] n = <<"c">> -> << <<<<"P">>, <<"1">>>> >>
      [] OTHER       -> << <<<<"P">>, <<"2">>>>, <<<<"M">>, <<"x">>>> >>

\* an env with a key no process environment can hold
EnvBadKey == << <<<<"A", "=", "B">>, <<"1">>>> >>

\* the command lists of composite scripts (the array form)
CompositeCommands ==
    { << <<"b">>, <<"c">> >>,
      << <<"d">> >>,
      << CmdX, <<"a">> >>,
      << >> }

\* the command lines of simple scripts (the string and table forms); the
\* second is also the name of a script
SimpleCommands == { CmdPQ, <<"d">>, CmdBad, CmdEsc }

\* the records a script called n may be
ScriptDefs(n) ==
    { ScriptDef(n, cs, EnvOf(n), <<>>, TRUE) : cs \in CompositeCommands }
    \cup { ScriptDef(n, <<c>>, EnvOf(n), <<>>, FALSE) : c \in SimpleCommands }
    \cup { ScriptDef(n, <<CmdX>>, EnvBadKey, <<>>, FALSE) : c \in {<<"d">>} \cap {n} }

\* the registries load_config builds: every key maps to a record of that name
Registries ==
    { [n \in Names |-> pick[n]] :
        pick \in { f \in [Names -> UNION {ScriptDefs(n) : n \in Names}] :
                     \A n \in Names : f[n].name = n } }

----------------------------------------------------------------------------
(* resolve_steps *)

\* What a call of resolve_steps leaves: [ok, val] or [ok, exc] as above, and
\* seen, the content of the set object it was handed, after the call.
Resolved(stps, seen) == [ok |-> TRUE, val |-> stps, exc |-> NoError, seen |-> seen]
Raised(e, seen) == [ok |-> FALSE, val |-> <<>>, exc |-> e, seen |-> seen]

\* `if script.name in _seen`
AlreadySeen(s, seen) == s.name \in seen

\* as OnRevisit, the error naming another script of the expansion path when
\* there is one
OnRevisitNamesAncestor(s, seen) ==
    Raised(ConfigError(IF seen = {s.name} THEN s.name
                       ELSE CHOOSE n \in seen : n # s.name), seen)

\* `raise ConfigError(f"Circular reference detected: {script.name}")`
OnRevisit(s, seen) == Raised(ConfigError(s.name), seen)

\* as SeenAdd, the name not being added
SeenAddNothing(seen, s) == seen

\* `_seen.add(script.name)`
SeenAdd(seen, s) == seen \cup {s.name}

\* as IsSimple, without the early return for a simple script
IsSimpleNever(s) == FALSE

\* `if not script.is_composite`
IsSimple(s) == ~s.is_composite

\* the steps of a simple script: [(cmd, script.env) for cmd in script.commands]
SimpleSteps(s) == [k \in 1..Len(s.commands) |-> <<s.commands[k], s.env>>]

\* `item in all_scripts`
IsReference(item, scripts) == item \in DOMAIN scripts

\* as SeenAfterCall, the recursive call handed _seen itself and not a copy
SeenAfterCallShared(seen, callee_seen) == callee_seen

\* the recursive call is handed _seen.copy(): the caller's own set, after the
\* call, holds what it held before, whatever the callee added to its copy
SeenAfterCall(seen, callee_seen) == seen

\* as Extend, putting the steps of the referenced script in front
ExtendFront(result, sub_steps, s) == sub_steps \o result

\* as Extend, merging the env of the referencing script into each step
ExtendMergedEnv(result, sub_steps, s) ==
    result \o [k \in 1..Len(sub_steps) |->
                 <<sub_steps[k][1], DictUpdate(s.env, sub_steps[k][2])>>]

\* result.extend(resolve_steps(referenced, ...)): the steps of the referenced
\* script are appended as they are, each with the env it came with
Extend(result, sub_steps, s) == result \o sub_steps

\* result.append((item, script.env)): a literal entry of a composite script
AppendLiteral(result, item, s) == Append(result, <<item, s.env>>)

\* as Uncaught, the loop catching the exception and returning what it has
CaughtPartial(exc, result, seen) == Resolved(result, seen)

\* an exception of the recursive call is not caught in resolve_steps: it
\* leaves this call too, and no step list is returned
Uncaught(exc, result, seen) == Raised(exc, seen)

RECURSIVE resolve_steps(_, _, _)
RECURSIVE resolve_items(_, _, _, _, _)

\* the for loop of resolve_steps over script.commands, from entry k on, with
\* result the steps collected so far
resolve_items(s, scripts, seen, k, result) ==
    IF k > Len(s.commands) THEN Resolved(result, seen)
    ELSE
        LET item == s.commands[k] IN
        IF IsReference(item, scripts) THEN
            LET sub == resolve_steps(scripts[item], scripts, seen) IN
            IF sub.ok
            THEN resolve_items(s, scripts, SeenAfterCall(seen, sub.seen), k + 1,
                               Extend(result, sub.val, s))
            ELSE Uncaught(sub.exc, result, SeenAfterCall(seen, sub.seen))
        ELSE resolve_items(s, scripts, seen, k + 1, AppendLiteral(result, item, s))

\* resolve_steps(script, all_scripts, _seen), _seen = {} at the top
resolve_steps(s, scripts, seen) ==
    IF AlreadySeen(s, seen) THEN OnRevisit(s, seen)
    ELSE IF IsSimple(s) THEN Resolved(SimpleSteps(s), SeenAdd(seen, s))
    ELSE resolve_items(s, scripts, SeenAdd(seen, s), 1, <<>>)

----------------------------------------------------------------------------
(* _exec_one *)

uv == <<"u", "v">>
run == <<"r", "u", "n">>
WithEditable == <<"-","-","w","i","t","h","-","e","d","i","t","a","b","l","e">>
Extra == <<"-","-","e","x","t","r","a">>

\* the character U+0000, which a TLA+ string cannot hold, written by its code
\* point
NUL == "U+0000"

PATH == <<"P", "A", "T", "H">>

\* the value of PATH in os.environ
PathB == <<"/", "b">>

\* os.defpath
defpath == <<"/","b","i","n",":","/","u","s","r","/","b","i","n">>

\* os.environ, the environment of this process
os_environ == << <<<<"P">>, <<"0">>>>, <<<<"H">>, <<"h">>>>, <<PATH, PathB>> >>

\* editable_flags: ["--with-editable", path] for each path of `editable or []`
editable_flags(ed) ==
    Concat([k \in 1..Len(OrEmpty(ed)) |-> <<WithEditable, OrEmpty(ed)[k]>>])

\* features_flags: ["--extra", name] for each name of `features or []`
features_flags(ft) ==
    Concat([k \in 1..Len(OrEmpty(ft)) |-> <<Extra, OrEmpty(ft)[k]>>])

\* as full_cmd, with the --extra pairs before the --with-editable pairs
full_cmd_features_first(ed, ft, parts) ==
    <<uv, run>> \o features_flags(ft) \o editable_flags(ed) \o parts

\* full_cmd = ["uv", "run"] + editable_flags + features_flags + parts
full_cmd(ed, ft, parts) ==
    <<uv, run>> \o editable_flags(ed) \o features_flags(ft) \o parts

\* as env_after_exec, the overlay being made in the step's own dict
\* (env.update(os.environ))
env_after_exec_updated(env) ==
    IF env # EmptyEnv THEN DictUpdate(env, os_environ) ELSE env

\* the dict env of the step after _exec_one: the overlay is a new dict, env
\* itself is only read
env_after_exec(env) == env

\* the registry after _exec_one was handed env, the env of every record
\* whose env is that dict
registry_after_exec(reg, env) ==
    [n \in DOMAIN reg |->
       IF reg[n].env = env
       THEN [reg[n] EXCEPT !.env = env_after_exec(env)]
       ELSE reg[n]]

\* a variant of run_env: the value of the parent wins on a key of both
run_env_parent_wins(env) ==
    IF env # EmptyEnv THEN Some(DictUpdate(env, os_environ)) ELSE None

\* run_env: None, or {**os.environ, **env} when env is not empty
run_env(env) == IF env # EmptyEnv THEN Some(DictUpdate(os_environ, env)) ELSE None

\* the PATH subprocess.run searches "uv" along (os.get_exec_path(env)): that
\* of env, of os.environ when env is None, os.defpath when the dict has none
exec_path(env) ==
    LET searched == IF env.none THEN os_environ ELSE env.val
    IN IF PATH \in DictKeys(searched) THEN DictGet(searched, PATH) ELSE defpath

\* subprocess.run(args, env=env) up to the start of the child: a key of env
\* that holds "=" is a ValueError, then so is a null character in an
\* argument, a key or a value; then "uv" is searched along the PATH, and the
\* OSError of a failed search is raised
subprocess_run(args, env, found) ==
    IF ~env.none /\ \E k \in 1..Len(env.val) : "=" \in Range(env.val[k][1])
    THEN Raise(ValueError("illegal environment variable name"))
    ELSE IF \/ \E k \in 1..Len(args) : NUL \in Range(args[k])
            \/ /\ ~env.none
               /\ \E k \in 1..Len(env.val) :
                    NUL \in Range(env.val[k][1]) \cup Range(env.val[k][2])
    THEN Raise(ValueError("embedded null byte"))
    ELSE IF found[exec_path(env)] = "started"
    THEN Ok(TRUE)
    ELSE Raise(OSError(found[exec_path(env)], "uv"))

\* the characters str.strip() removes, those str.isspace() is true of: the
\* ASCII white space with U+000B and U+001C to U+001F, then U+0085, U+00A0,
\* U+1680, U+2000 to U+200A, U+2028, U+2029, U+202F, U+205F and U+3000.  The
\* last sixteen, which a TLA+ string cannot hold, are written by their code
\* point.
StripChars ==
    {" ", "\t", "\n", "\r", "\f",
     "", "", "", "", "", "", " ", " ",
     "U+2000", "U+2001", "U+2002", "U+2003", "U+2004", "U+2005",
     "U+2006", "U+2007", "U+2008", "U+2009", "U+200A", "U+2028",
     "U+2029", "U+202F", "U+205F", "U+3000"}

RECURSIVE LStrip(_)
LStrip(str) ==
    IF str # <<>> /\ Head(str) \in StripChars THEN LStrip(Tail(str)) ELSE str

RECURSIVE RStrip(_)
RStrip(str) ==
    IF str # <<>> /\ str[Len(str)] \in StripChars
    THEN RStrip(SubSeq(str, 1, Len(str) - 1))
    ELSE str

\* str.strip()
Strip(str) == RStrip(LStrip(str))

\* env_prefix = " ".join(f"{k}={shlex.quote(v)}" for k, v in env.items())
env_prefix(env) ==
    Join(<<" ">>, [k \in 1..Len(env) |-> env[k][1] \o <<"=">> \o shlex_quote(env[k][2])])

\* the line _exec_one prints when verbose:
\* "$ " + f"{env_prefix} {' '.join(full_cmd)}".strip()
display_line(env, cmd) ==
    <<"$", " ">> \o Strip(env_prefix(env) \o <<" ">> \o Join(<<" ">>, cmd))

----------------------------------------------------------------------------
(* run_script *)

\* `i == len(steps) - 1`
IsLast(k, stps) == k = Len(stps) - 1

\* cmd_str + " " + " ".join(shlex.quote(a) for a in extra_args)
WithExtraArgs(cmd_str, extra) ==
    cmd_str \o <<" ">> \o Join(<<" ">>, [k \in 1..Len(extra) |-> shlex_quote(extra[k])])

\* as CmdStr, reading the command of the first step at every turn
CmdStrFirst(k, stps, extra) ==
    IF Truthy(extra) /\ IsLast(k, stps)
    THEN WithExtraArgs(stps[1][1], extra.val)
    ELSE stps[1][1]

\* the command string run_script hands to _exec_one for step k (0-based)
CmdStr(k, stps, extra) ==
    IF Truthy(extra) /\ IsLast(k, stps)
    THEN WithExtraArgs(stps[k + 1][1], extra.val)
    ELSE stps[k + 1][1]

\* as Failed, taking only the exit code 1 for a failure
FailedOnlyOne(exit_code) == exit_code = 1

\* as Failed, going on to the next step whatever the exit code
FailedNever(exit_code) == FALSE

\* `if exit_code != 0: return exit_code`
Failed(exit_code) == exit_code # 0

ExitCodes == (-MaxSignal)..MaxExit

\* arguments and package paths, feature names
ArgK == <<"-", "k">>
ArgSp == <<"a", " ", "b">>
ArgVt == <<"">>
ArgNul == <<"z", NUL>>
Pkg1 == <<"/", "p">>
Pkg2 == <<"/", "q">>
Feat1 == <<"s">>
Feat2 == <<"c">>

\* the (extra_args, editable, features, verbose) a call of run_script is
\* given, and how the search of "uv" along the PATH of os.environ ends then:
\* in an executable file ("started"), in no file at all, or in a file that
\* may not be executed
RunArgs ==
    { <<None, None, None, FALSE, "started">>,
      <<Some(<<>>), Some(<<>>), Some(<<>>), TRUE, "started">>,
      <<Some(<<ArgK>>), Some(<<Pkg1, Pkg2>>), None, FALSE, "started">>,
      <<Some(<<ArgSp, <<>>, ArgVt>>), None, Some(<<Feat1, Feat2>>), TRUE, "started">>,
      <<None, Some(<<Pkg1, Pkg2>>), Some(<<Feat1, Feat2>>), FALSE, "started">>,
      <<Some(<<ArgK>>), Some(<<Pkg1>>), Some(<<Feat1>>), TRUE, "started">>,
      <<Some(<<ArgNul>>), None, None, TRUE, "started">>,
      <<Some(<<ArgK>>), Some(<<Pkg1>>), Some(<<Feat1>>), TRUE, "FileNotFoundError">>,
      <<None, None, None, FALSE, "PermissionError">> }

\* run_script(script, all_scripts, extra_args, verbose, editable, features) is called
\* with a script of the registry, as cli.main does
Init ==
    /\ all_scripts \in Registries
    /\ script \in {all_scripts[n] : n \in Names}
    /\ \E a \in RunArgs :
         /\ extra_args = a[1]
         /\ editable = a[2]
         /\ features = a[3]
         /\ verbose = a[4]
         /\ execvp = [path \in {PathB} |-> a[5]]
    /\ symlinks = <<>>
    /\ directories = {}
    /\ pc = "call"
    /\ steps = <<>>
    /\ i = 0
    /\ calls = <<>>
    /\ running = 0
    /\ exits = <<>>
    /\ stderr = <<>>
    /\ ret = 0
    /\ error = NoError
    /\ uvs_table = <<>>
    /\ cfg_scripts = <<>>
    /\ config = None
    /\ stack = <<>>

\* steps = resolve_steps(script, all_scripts); an exception leaves run_script
Resolve ==
    /\ pc = "call"
    /\ LET r == resolve_steps(script, all_scripts, {}) IN
         \/ /\ r.ok
            /\ steps' = r.val
            /\ pc' = "loop"
            /\ error' = error
         \/ /\ ~r.ok
            /\ steps' = steps
            /\ pc' = "raised"
            /\ error' = r.exc
    /\ UNCHANGED <<all_scripts, script, extra_args, editable, features, verbose,
                   i, calls, running, exits, stderr, ret>>
    /\ UNCHANGED <<loader_vars, resolver_vars, fs_vars>>

\* as after_spawn, subprocess.run returning as soon as the child is started
\* (a Popen that is not waited for): the loop goes on to the next step
after_spawn_no_wait(k) == [pc |-> "loop", i |-> k + 1]

\* where run_script stands once subprocess.run has started the child of step
\* k (0-based): inside subprocess.run, which returns only when the child has exited
after_spawn(k) == [pc |-> "wait", i |-> k]

\* one turn of the loop up to the call of subprocess.run in _exec_one: the
\* command string of step i is built and split, the command is printed when
\* verbose, subprocess.run is called and starts the child.  A ValueError of
\* shlex.split leaves run_script before anything is printed; an exception of
\* subprocess.run leaves it after the command is printed, no child started.
\* The names script and all_scripts are bound once, by the call; the dict env
\* of the step is the one of its record in the registry
ExecOne ==
    /\ pc = "loop"
    /\ i < Len(steps)
    /\ LET cmd_str == CmdStr(i, steps, extra_args)
           env == steps[i + 1][2]
           parts == shlex_split(cmd_str)
           args == full_cmd(editable, features, parts.val)
           started == subprocess_run(args, run_env(env), execvp)
       IN
         \/ /\ parts.ok
            /\ started.ok
            /\ stderr' = IF verbose THEN Append(stderr, display_line(env, args)) ELSE stderr
            /\ calls' = Append(calls, [args |-> args,
                                       env |-> run_env(env),
                                       cmd_str |-> cmd_str,
                                       child |-> TRUE])
            /\ running' = running + 1
            /\ pc' = after_spawn(i).pc
            /\ i' = after_spawn(i).i
            /\ error' = error
            /\ all_scripts' = registry_after_exec(all_scripts, env)
         \/ /\ parts.ok
            /\ ~started.ok
            /\ stderr' = IF verbose THEN Append(stderr, display_line(env, args)) ELSE stderr
            /\ calls' = Append(calls, [args |-> args,
                                       env |-> run_env(env),
                                       cmd_str |-> cmd_str,
                                       child |-> FALSE])
            /\ running' = running
            /\ pc' = "raised"
            /\ i' = i
            /\ error' = started.exc
            /\ all_scripts' = registry_after_exec(all_scripts, env)
         \/ /\ ~parts.ok
            /\ stderr' = stderr
            /\ calls' = calls
            /\ running' = running
            /\ pc' = "raised"
            /\ i' = i
            /\ error' = parts.exc
            /\ all_scripts' = all_scripts
    /\ UNCHANGED <<script, extra_args, editable, features, verbose, steps, exits, ret>>
    /\ UNCHANGED <<loader_vars, resolver_vars, fs_vars>>

\* subprocess.run returns when the child has exited: a non-zero returncode
\* is returned at once, otherwise the loop goes on
ChildExit ==
    /\ pc = "wait"
    /\ \E exit_code \in ExitCodes :
         /\ running' = running - 1
         /\ exits' = Append(exits, exit_code)
         /\ \/ /\ Failed(exit_code)
               /\ ret' = exit_code
               /\ pc' = "returned"
               /\ i' = i
            \/ /\ ~Failed(exit_code)
               /\ ret' = ret
               /\ pc' = "loop"
               /\ i' = i + 1
    /\ UNCHANGED <<all_scripts, script, extra_args, editable, features, verbose,
                   steps, calls, stderr, error>>
    /\ UNCHANGED <<loader_vars, resolver_vars, fs_vars>>

\* the loop is exhausted: return 0
ReturnZero ==
    /\ pc = "loop"
    /\ i = Len(steps)
    /\ ret' = 0
    /\ pc' = "returned"
    /\ UNCHANGED <<all_scripts, script, extra_args, editable, features, verbose,
                   steps, i, calls, running, exits, stderr, error>>
    /\ UNCHANGED <<loader_vars, resolver_vars, fs_vars>>

Next == Resolve \/ ExecOne \/ ChildExit \/ ReturnZero

Spec == Init /\ [][Next]_vars

----------------------------------------------------------------------------
(* load_config: the values tomllib hands over *)

\* a value of the parsed TOML document, with its Python type: the val of a
\* str is its characters, of an int the number, of a bool the truth value, of
\* a list its items, of a dict its (key, value) pairs, the keys being plain
\* character sequences
PyStr(chars) == [type |-> "str", val |-> chars]
PyInt(n) == [type |-> "int", val |-> n]
PyBool(b) == [type |-> "bool", val |-> b]
PyList(items) == [type |-> "list", val |-> items]
PyDict(pairs) == [type |-> "dict", val |-> pairs]

\* isinstance(v, t), for t one of str, list and dict
isinstance(v, t) == v.type = t

\* bool(v): True, a number other than 0, a str, list or dict that is not empty
PyTruthy(v) ==
    CASE v.type = "bool" -> v.val
      [] v.type = "int" -> v.val # 0
      [] OTHER -> v.val # <<>>

\* d.get(key, default) of a dict value
PyGet(d, key, default) ==
    IF key \in DictKeys(d.val) THEN DictGet(d.val, key) ELSE default

\* the value d.get(key) returns for a missing key
PyNone == [type |-> "NoneType", val |-> <<>>]

Digit(n) == <<"0", "1", "2", "3", "4", "5", "6", "7", "8", "9">>[n + 1]

RECURSIVE Digits(_)
\* the decimal digits of a natural number
Digits(n) == IF n < 10 THEN <<Digit(n)>> ELSE Digits(n \div 10) \o <<Digit(n % 10)>>

\* str(v) of a str, an int or a bool
py_str(v) ==
    CASE v.type = "str" -> v.val
      [] v.type = "int" -> IF v.val < 0 THEN <<"-">> \o Digits(-v.val) ELSE Digits(v.val)
      [] v.type = "bool" -> IF v.val THEN <<"T", "r", "u", "e">>
                            ELSE <<"F", "a", "l", "s", "e">>

\* the keys load_config and _parse_script look up
KeyScripts == <<"s", "c", "r", "i", "p", "t", "s">>
KeyEditable == <<"e", "d", "i", "t", "a", "b", "l", "e">>
KeyFeatures == <<"f", "e", "a", "t", "u", "r", "e", "s">>
KeyCmd == <<"c", "m", "d">>
KeyEnv == <<"e", "n", "v">>
KeyHelp == <<"h", "e", "l", "p">>

\* a ConfigError of the loader (or another exception), about a script or a key
LoaderError(kind, about, msg) == [kind |-> kind, arg |-> <<about, msg>>]

\* _parse_script(name, value)
parse_script(name, value) ==
    IF isinstance(value, "str")
    THEN Ok(ScriptDef(name, <<value.val>>, EmptyEnv, <<>>, FALSE))
    ELSE IF isinstance(value, "list")
    THEN IF \A k \in 1..Len(value.val) : isinstance(value.val[k], "str")
         THEN Ok(ScriptDef(name, [k \in 1..Len(value.val) |-> value.val[k].val],
                           EmptyEnv, <<>>, TRUE))
         ELSE Raise(LoaderError("ConfigError", name, "array items must all be strings"))
    ELSE IF isinstance(value, "dict")
    THEN LET cmd == PyGet(value, KeyCmd, PyNone)
             env == PyGet(value, KeyEnv, PyDict(<<>>))
             help_text == PyGet(value, KeyHelp, PyStr(<<>>))
         IN IF isinstance(cmd, "NoneType") \/ ~PyTruthy(cmd) \/ ~isinstance(cmd, "str")
            THEN Raise(LoaderError("ConfigError", name, "table form requires a 'cmd' string"))
            ELSE IF ~isinstance(env, "dict")
            THEN Raise(LoaderError("ConfigError", name, "'env' must be a table of strings"))
            ELSE Ok(ScriptDef(name, <<cmd.val>>,
                              [k \in 1..Len(env.val) |->
                                 <<env.val[k][1], py_str(env.val[k][2])>>],
                              help_text.val, FALSE))
    ELSE Raise(LoaderError("ConfigError", name, "value must be a string, array, or table"))

\* the directory of pyproject.toml
project_dir == <<"/", "w">>

RECURSIVE path_parts(_, _, _)
\* the pieces of a path between its "/", cur being the piece begun and out
\* the pieces before it
path_parts(path, cur, out) ==
    IF path = <<>> THEN Append(out, cur)
    ELSE IF Head(path) = "/" THEN path_parts(Tail(path), <<>>, Append(out, cur))
    ELSE path_parts(Tail(path), Append(cur, Head(path)), out)

\* the string of an absolute path, from its components
path_str(parts) ==
    IF parts = <<>> THEN <<"/">>
    ELSE Concat([k \in 1..Len(parts) |-> <<"/">> \o parts[k]])

\* os.path.islink: the path is that of a symbolic link of the file system
islink(parts, links) == path_str(parts) \in DictKeys(links)

\* a piece of the path still to walk, and the note that ends the walk of the
\* target of a link
Piece(name) == [mark |-> FALSE, name |-> name, link |-> <<>>]
Mark(link) == [mark |-> TRUE, name |-> <<>>, link |-> link]
Pieces(path) ==
    [k \in 1..Len(path_parts(path, <<>>, <<>>)) |-> Piece(path_parts(path, <<>>, <<>>)[k])]

\* os.path.join(a, b) for a path a that is not empty
path_join(a, b) ==
    IF b # <<>> /\ Head(b) = "/" THEN b
    ELSE IF a[Len(a)] = "/" THEN a \o b
    ELSE a \o <<"/">> \o b

RECURSIVE unwalked(_, _, _)
\* the path os.path.realpath gives up with at a loop: the link, and joined to
\* it what was left to walk at every level, cur being what was left of the
\* level begun
unwalked(path, rest, cur) ==
    IF rest = <<>> THEN path_join(path, Join(<<"/">>, cur))
    ELSE IF Head(rest).mark
    THEN unwalked(path_join(path, Join(<<"/">>, cur)), Tail(rest), <<>>)
    ELSE unwalked(path, Tail(rest), Append(cur, Head(rest).name))

\* the result of os.path.realpath at a loop of symbolic links
GaveUp(path) == [ok |-> FALSE, val |-> path, exc |-> [kind |-> "loop", arg |-> "ELOOP"]]

RECURSIVE joinrealpath(_, _, _, _, _)
\* os.path.realpath, path being the components resolved so far and rest what
\* is still to walk: an empty piece and "." are dropped, ".." drops the
\* component before it and stays at the root when there is none, any other
\* name is looked up with os.lstat, which raises ValueError on a null
\* character.  The target of a symbolic link is walked in its place, from the
\* root when it is absolute; seen holds the links whose walk is not finished
\* and done the path of those whose walk is.  Coming upon a link of seen is a
\* loop, where the walk is given up.
joinrealpath(path, rest, seen, done, links) ==
    IF rest = <<>> THEN Ok(path)
    ELSE IF Head(rest).mark
    THEN joinrealpath(path, Tail(rest), seen \ {Head(rest).link},
                      Append(done, <<Head(rest).link, path>>), links)
    ELSE LET name == Head(rest).name
             newpath == Append(path, name)
         IN IF name \in {<<>>, <<".">>}
            THEN joinrealpath(path, Tail(rest), seen, done, links)
            ELSE IF name = <<".", ".">>
            THEN joinrealpath(IF path = <<>> THEN path ELSE SubSeq(path, 1, Len(path) - 1),
                              Tail(rest), seen, done, links)
            ELSE IF NUL \in Range(name)
            THEN Raise(ValueError("embedded null byte"))
            ELSE IF ~islink(newpath, links)
            THEN joinrealpath(newpath, Tail(rest), seen, done, links)
            ELSE IF newpath \in DictKeys(done)
            THEN joinrealpath(DictGet(done, newpath), Tail(rest), seen, done, links)
            ELSE IF newpath \in seen
            THEN GaveUp(unwalked(path_str(newpath), Tail(rest), <<>>))
            ELSE LET target == DictGet(links, path_str(newpath))
                 IN joinrealpath(IF Head(target) = "/" THEN <<>> ELSE path,
                                 Pieces(target) \o <<Mark(newpath)>> \o Tail(rest),
                                 seen \cup {newpath}, done, links)

RECURSIVE norm_parts(_, _)
\* the components os.path.normpath keeps of an absolute path
norm_parts(parts, kept) ==
    IF parts = <<>> THEN kept
    ELSE IF Head(parts) \in {<<>>, <<".">>} THEN norm_parts(Tail(parts), kept)
    ELSE IF Head(parts) = <<".", ".">>
    THEN norm_parts(Tail(parts),
                    IF kept = <<>> THEN kept ELSE SubSeq(kept, 1, Len(kept) - 1))
    ELSE norm_parts(Tail(parts), Append(kept, Head(parts)))

\* os.path.normpath of an absolute path: two slashes at the start are kept,
\* one or more than two are one
normpath(path) ==
    LET kept == norm_parts(path_parts(path, <<>>, <<>>), <<>>)
        two == /\ Len(path) >= 2
               /\ path[2] = "/"
               /\ ~(Len(path) >= 3 /\ path[3] = "/")
    IN (IF two THEN <<"/">> ELSE <<>>)
       \o (IF kept = <<>> THEN <<"/">> ELSE path_str(kept))

\* the number of symbolic links the kernel follows in one path
MAXSYMLINKS == 40

RECURSIVE too_many_links(_, _, _, _, _, _)
\* os.stat(path) fails with ELOOP: the kernel walks the path from the
\* directory cur and follows every symbolic link, walking its target in its
\* place; it gives up after MAXSYMLINKS of them, which it comes to when it
\* meets a link of seen, one whose target it is still walking.  A name that
\* is no directory ends the walk.
too_many_links(cur, rest, seen, followed, links, dirs) ==
    IF rest = <<>> THEN FALSE
    ELSE IF Head(rest).mark
    THEN too_many_links(cur, Tail(rest), seen \ {Head(rest).link}, followed, links, dirs)
    ELSE LET name == Head(rest).name
             newpath == Append(cur, name)
         IN IF name \in {<<>>, <<".">>}
            THEN too_many_links(cur, Tail(rest), seen, followed, links, dirs)
            ELSE IF name = <<".", ".">>
            THEN too_many_links(IF cur = <<>> THEN cur ELSE SubSeq(cur, 1, Len(cur) - 1),
                                Tail(rest), seen, followed, links, dirs)
            ELSE IF islink(newpath, links)
            THEN IF followed >= MAXSYMLINKS \/ newpath \in seen THEN TRUE
                 ELSE LET target == DictGet(links, path_str(newpath))
                      IN too_many_links(IF Head(target) = "/" THEN <<>> ELSE cur,
                                        Pieces(target) \o <<Mark(newpath)>> \o Tail(rest),
                                        seen \cup {newpath}, followed + 1, links, dirs)
            ELSE IF path_str(newpath) \in dirs
            THEN too_many_links(newpath, Tail(rest), seen, followed, links, dirs)
            ELSE FALSE

\* str((dir / entry).resolve()) for an absolute dir, on the file system of
\* the symbolic links `links` and the directories `dirs`: an absolute entry
\* replaces dir, any other is joined to it, and the pieces of the path (but
\* the empty ones and ".", which pathlib drops) are resolved.  Where
\* os.path.realpath gave up, the path it gave up with is normalised, and
\* stat() tells whether it leads into a loop: the ValueError of a null
\* character or the RuntimeError of the loop is raised, or the path returned
resolve_path(dir, entry, links, dirs) ==
    LET joined == IF entry # <<>> /\ Head(entry) = "/"
                  THEN entry
                  ELSE dir \o <<"/">> \o entry
        pieces == SelectSeq(Pieces(joined), LAMBDA p : p.name \notin {<<>>, <<".">>})
        real == joinrealpath(<<>>, pieces, {}, <<>>, links)
    IN IF real.ok THEN Ok(path_str(real.val))
       ELSE IF real.exc.kind # "loop" THEN real
       ELSE IF NUL \in Range(normpath(real.val))
       THEN Raise(ValueError("embedded null byte"))
       ELSE IF too_many_links(<<>>, Pieces(normpath(real.val)), {}, 0, links, dirs)
       THEN Raise(RuntimeError("Symlink loop"))
       ELSE Ok(normpath(real.val))

\* UvsConfig(scripts=, editable=, features=)
UvsConfig(scr, ed, ft) == [scripts |-> scr, editable |-> ed, features |-> ft]

----------------------------------------------------------------------------
(* load_config *)

\* the values of a script in [tool.uvs.scripts]: the string form (also the
\* empty string), the array form (empty, of strings, with a number), the
\* table form (complete, with an empty cmd, without cmd, with an env or a cmd
\* of the wrong type) and a number; a list, for its values are of different
\* types
ScriptValues ==
    << PyStr(CmdX),
      PyStr(<<>>),
      PyList(<<>>),
      PyList(<<PyStr(CmdX), PyStr(<<"a">>)>>),
      PyList(<<PyStr(CmdX), PyInt(1)>>),
      PyDict(<< <<KeyCmd, PyStr(CmdPQ)>>,
                <<KeyEnv, PyDict(<< <<<<"P">>, PyInt(12)>>,
                                    <<<<"M">>, PyStr(<<"d", " ", "v">>)>>,
                                    <<<<"N">>, PyInt(-3)>>,
                                    <<<<"B">>, PyBool(TRUE)>> >>)>>,
                <<KeyHelp, PyStr(<<"h">>)>> >>),
      PyDict(<< <<KeyCmd, PyStr(<<>>)>> >>),
      PyDict(<< <<KeyEnv, PyDict(<<>>)>> >>),
      PyDict(<< <<KeyCmd, PyStr(CmdX)>>, <<KeyEnv, PyStr(<<"x">>)>> >>),
      PyDict(<< <<KeyCmd, PyList(<<PyStr(CmdX)>>)>> >>),
      PyDict(<< <<KeyCmd, PyBool(TRUE)>> >>),
      PyInt(3) >>

\* the shapes of the key scripts: missing, an empty table, a string, a table
\* of one script, a table of two
ScriptsShapes == {"missing", "empty", "str", "one", "two"}

\* the key scripts of a shape, v and w numbering the values of the scripts
ScriptsTable(shape, v, w) ==
    CASE shape = "missing" -> <<>>
      [] shape = "empty" -> << <<KeyScripts, PyDict(<<>>)>> >>
      [] shape = "str" -> << <<KeyScripts, PyStr(CmdX)>> >>
      [] shape = "one" -> << <<KeyScripts, PyDict(<< <<<<"a">>, ScriptValues[v]>> >>)>> >>
      [] shape = "two" ->
           << <<KeyScripts, PyDict(<< <<<<"a">>, ScriptValues[v]>>,
                                      <<<<"b">>, ScriptValues[w]>> >>)>> >>

\* the file systems load_config runs on: the project directory alone; or
\* with it a link to a directory, a link to an absolute path and two links to
\* one another
Filesystems ==
    { [links |-> <<>>, dirs |-> {<<"/", "w">>}],
      [links |-> << <<<<"/", "w", "/", "l", "n", "k">>, <<"s", "u", "b", "/", "d", "e", "e", "p">>>>,
                    <<<<"/", "w", "/", "a", "b", "s">>, <<"/", "e", "/", "f">>>>,
                    <<<<"/", "w", "/", "l", "o", "o", "p">>, <<"p", "o", "o", "l">>>>,
                    <<<<"/", "w", "/", "p", "o", "o", "l">>, <<".", ".", "/", "w", "/", "l", "o", "o", "p">>>> >>,
       dirs |-> {<<"/", "w">>, <<"/", "w", "/", "s", "u", "b">>, <<"/", "w", "/", "s", "u", "b", "/", "d", "e", "e", "p">>}] }

\* the values of the key editable: missing, lists of paths, a string, a list
\* with a number, paths over symbolic links, paths with a null character
EditableValues ==
    << <<>>,
      << <<KeyEditable, PyList(<<>>)>> >>,
      << <<KeyEditable, PyList(<<PyStr(Pkg1), PyStr(<<"q">>)>>)>> >>,
      << <<KeyEditable, PyList(<<PyStr(<<".", ".", "/", "p", "k", "g", "1">>),
                                 PyStr(<<".", "/", "q", "/">>),
                                 PyStr(<<"a", "/", "/", "b", "/", ".", ".">>),
                                 PyStr(<<>>)>>)>> >>,
      << <<KeyEditable, PyStr(Pkg1)>> >>,
      << <<KeyEditable, PyList(<<PyStr(Pkg1), PyInt(1)>>)>> >>,
      << <<KeyEditable, PyList(<<PyStr(<<"l", "n", "k">>),
                                 PyStr(<<"l", "n", "k", "/", ".", ".">>),
                                 PyStr(<<"a", "b", "s", "/", ".", ".", "/", "x">>),
                                 PyStr(<<"l", "o", "o", "p", "/", ".", ".", "/", "y">>)>>)>> >>,
      << <<KeyEditable, PyList(<<PyStr(Pkg1), PyStr(<<"l", "o", "o", "p", "/", "y">>)>>)>> >>,
      << <<KeyEditable, PyList(<<PyStr(<<"p", NUL>>), PyInt(1)>>)>> >>,
      << <<KeyEditable, PyList(<<PyInt(1), PyStr(<<NUL>>)>>)>> >> >>

\* the values of the key features: missing, a list of names, a number, a list
\* with a number
FeaturesValues ==
    << <<>>,
      << <<KeyFeatures, PyList(<<PyStr(Feat1), PyStr(Feat2)>>)>> >>,
      << <<KeyFeatures, PyInt(1)>> >>,
      << <<KeyFeatures, PyList(<<PyInt(1)>>)>> >> >>

\* load_config() is called: data.get("tool", {}).get("uvs", {}) is uvs_table
LoaderInit ==
    /\ \E shape \in ScriptsShapes, v, w \in 1..Len(ScriptValues),
          ed \in 1..Len(EditableValues), ft \in 1..Len(FeaturesValues) :
         /\ shape # "two" => w = 1
         /\ shape \notin {"one", "two"} => v = 1
         /\ uvs_table = PyDict(ScriptsTable(shape, v, w)
                                \o EditableValues[ed] \o FeaturesValues[ft])
    /\ \E fs \in Filesystems :
         /\ symlinks = fs.links
         /\ directories = fs.dirs
    /\ execvp = [path \in {PathB} |-> "started"]
    /\ cfg_scripts = <<>>
    /\ config = None
    /\ pc = "load_config"
    /\ error = NoError
    /\ all_scripts = <<>>
    /\ script = <<>>
    /\ extra_args = None
    /\ editable = None
    /\ features = None
    /\ verbose = FALSE
    /\ steps = <<>>
    /\ i = 0
    /\ calls = <<>>
    /\ running = 0
    /\ exits = <<>>
    /\ stderr = <<>>
    /\ ret = 0
    /\ stack = <<>>

\* scripts_table = uvs_table.get("scripts", {})
scripts_table == PyGet(uvs_table, KeyScripts, PyDict(<<>>))

\* what load_config leaves alone
loader_frame ==
    UNCHANGED <<all_scripts, script, extra_args, editable, features, verbose,
                steps, i, calls, running, exits, stderr, ret, uvs_table, stack,
                fs_vars>>

\* the scripts table is looked up, an empty one is refused, scripts = {} and
\* the loop over scripts_table.items() begins (a value without items() raises
\* AttributeError)
OpenScriptsTable ==
    /\ pc = "load_config"
    /\ IF ~PyTruthy(scripts_table)
       THEN /\ pc' = "raised"
            /\ error' = LoaderError("ConfigError", KeyScripts,
                                    "No [tool.uvs.scripts] section found")
       ELSE IF ~isinstance(scripts_table, "dict")
       THEN /\ pc' = "raised"
            /\ error' = LoaderError("AttributeError", KeyScripts, "items")
       ELSE /\ pc' = "scripts"
            /\ error' = error
    /\ UNCHANGED <<cfg_scripts, config>>
    /\ loader_frame

\* one turn of the loop: scripts[name] = _parse_script(name, value)
ParseScript ==
    /\ pc = "scripts"
    /\ Len(cfg_scripts) < Len(scripts_table.val)
    /\ LET item == scripts_table.val[Len(cfg_scripts) + 1]
           parsed == parse_script(item[1], item[2])
       IN IF parsed.ok
          THEN /\ cfg_scripts' = Append(cfg_scripts, <<item[1], parsed.val>>)
               /\ pc' = pc
               /\ error' = error
          ELSE /\ cfg_scripts' = cfg_scripts
               /\ pc' = "raised"
               /\ error' = parsed.exc
    /\ UNCHANGED config
    /\ loader_frame

RECURSIVE editable_entries(_, _, _, _)
\* the loop over raw_editable: an entry that is not a string raises
\* ConfigError, a string is resolved against the project directory, and the
\* first exception ends the loop
editable_entries(raw, out, links, dirs) ==
    IF raw = <<>> THEN Ok(out)
    ELSE IF ~isinstance(Head(raw), "str")
    THEN Raise(LoaderError("ConfigError", KeyEditable, "items must be strings"))
    ELSE LET resolved == resolve_path(project_dir, Head(raw).val, links, dirs)
         IN IF resolved.ok
            THEN editable_entries(Tail(raw), Append(out, resolved.val), links, dirs)
            ELSE resolved

\* editable: the list of the entries resolved
load_editable(raw, links, dirs) ==
    IF ~isinstance(raw, "list")
    THEN Raise(LoaderError("ConfigError", KeyEditable, "must be an array of path strings"))
    ELSE editable_entries(raw.val, <<>>, links, dirs)

\* features: the entries of the list
load_features(raw) ==
    IF ~isinstance(raw, "list")
    THEN Raise(LoaderError("ConfigError", KeyFeatures, "must be an array of extra names"))
    ELSE IF \E k \in 1..Len(raw.val) : ~isinstance(raw.val[k], "str")
    THEN Raise(LoaderError("ConfigError", KeyFeatures, "items must be strings"))
    ELSE Ok([k \in 1..Len(raw.val) |-> raw.val[k].val])

\* after the loop: editable and features are validated and the UvsConfig is
\* returned
ReturnConfig ==
    /\ pc = "scripts"
    /\ Len(cfg_scripts) = Len(scripts_table.val)
    /\ LET ed == load_editable(PyGet(uvs_table, KeyEditable, PyList(<<>>)), symlinks, directories)
           ft == load_features(PyGet(uvs_table, KeyFeatures, PyList(<<>>)))
       IN IF ~ed.ok
          THEN /\ pc' = "raised" /\ error' = ed.exc /\ config' = config
          ELSE IF ~ft.ok
          THEN /\ pc' = "raised" /\ error' = ft.exc /\ config' = config
          ELSE /\ pc' = "loaded"
               /\ error' = error
               /\ config' = Some(UvsConfig(cfg_scripts, ed.val, ft.val))
    /\ UNCHANGED cfg_scripts
    /\ loader_frame

LoaderNext == OpenScriptsTable \/ ParseScript \/ ReturnConfig

LoaderSpec == LoaderInit /\ [][LoaderNext]_vars

----------------------------------------------------------------------------
(* resolve_steps, call by call *)

\* an active call of resolve_steps: its script, its own _seen set, the entry
\* of script.commands the loop is at (from 1), its result list, and the
\* exception that is leaving it, if any
Frame(s, seen, k, result, exc) ==
    [s |-> s, seen |-> seen, k |-> k, result |-> result, exc |-> exc]

\* the call is being left by an exception
Raising(f) == f.exc # NoError

\* the call has reached a return: `return [(cmd, script.env) ...]` of a simple
\* script, or `return result` after the loop
AtReturn(f) == ~Raising(f) /\ (IsSimple(f.s) \/ f.k > Len(f.s.commands))

\* what the call returns there
ReturnValue(f) == IF IsSimple(f.s) THEN SimpleSteps(f.s) ELSE f.result

\* the call is at an entry of the loop
AtItem(f) == ~Raising(f) /\ ~IsSimple(f.s) /\ f.k <= Len(f.s.commands)

\* the call as it stands after lines 45-49: the exception of a script that
\* was seen, or the name added to the set
Entered(s, seen) ==
    IF AlreadySeen(s, seen)
    THEN Frame(s, seen, 1, <<>>, OnRevisit(s, seen).exc)
    ELSE Frame(s, SeenAdd(seen, s), 1, <<>>, NoError)

\* resolve_steps(script, all_scripts) is called
ResolveInit ==
    /\ all_scripts \in Registries
    /\ script \in {all_scripts[n] : n \in Names}
    /\ pc = "resolve"
    /\ stack = <<>>
    /\ steps = <<>>
    /\ error = NoError
    /\ extra_args = None
    /\ editable = None
    /\ features = None
    /\ verbose = FALSE
    /\ i = 0
    /\ calls = <<>>
    /\ running = 0
    /\ exits = <<>>
    /\ stderr = <<>>
    /\ ret = 0
    /\ uvs_table = <<>>
    /\ cfg_scripts = <<>>
    /\ config = None
    /\ execvp = [path \in {PathB} |-> "started"]
    /\ symlinks = <<>>
    /\ directories = {}

\* what resolve_steps leaves alone
resolver_frame ==
    UNCHANGED <<all_scripts, script, extra_args, editable, features, verbose,
                i, calls, running, exits, stderr, ret, loader_vars, fs_vars>>

\* a call begins: the top-level call with a new set, or the call the loop
\* makes for an entry that is a key of the registry, with a copy of its set
Enter ==
    /\ pc = "resolve"
    /\ Len(stack) < MaxDepth
    /\ \/ /\ stack = <<>>
          /\ stack' = <<Entered(script, {})>>
       \/ /\ stack # <<>>
          /\ LET f == stack[Len(stack)] IN
               /\ AtItem(f)
               /\ IsReference(f.s.commands[f.k], all_scripts)
               /\ stack' = Append(stack, Entered(all_scripts[f.s.commands[f.k]], f.seen))
    /\ UNCHANGED <<pc, steps, error>>
    /\ resolver_frame

\* the loop is at an entry that is not a key: result.append((item, script.env))
Literal ==
    /\ pc = "resolve"
    /\ stack # <<>>
    /\ LET f == stack[Len(stack)] IN
         /\ AtItem(f)
         /\ ~IsReference(f.s.commands[f.k], all_scripts)
         /\ stack' = [stack EXCEPT ![Len(stack)] =
                        Frame(f.s, f.seen, f.k + 1,
                              AppendLiteral(f.result, f.s.commands[f.k], f.s), NoError)]
    /\ UNCHANGED <<pc, steps, error>>
    /\ resolver_frame

\* a call returns: to the loop of its caller, which extends its result and
\* goes on to the next entry, or to the caller of resolve_steps
Return ==
    /\ pc = "resolve"
    /\ stack # <<>>
    /\ LET f == stack[Len(stack)] IN
         /\ AtReturn(f)
         /\ IF Len(stack) = 1
            THEN /\ stack' = <<>>
                 /\ steps' = ReturnValue(f)
                 /\ pc' = "resolved"
            ELSE LET c == stack[Len(stack) - 1] IN
                 /\ stack' = [SubSeq(stack, 1, Len(stack) - 1) EXCEPT ![Len(stack) - 1] =
                                Frame(c.s, SeenAfterCall(c.seen, f.seen), c.k + 1,
                                      Extend(c.result, ReturnValue(f), c.s), NoError)]
                 /\ steps' = steps
                 /\ pc' = pc
    /\ UNCHANGED error
    /\ resolver_frame

\* an exception leaves a call: nothing catches it in the caller, which it
\* leaves in turn, up to the caller of resolve_steps
Unwind ==
    /\ pc = "resolve"
    /\ stack # <<>>
    /\ LET f == stack[Len(stack)] IN
         /\ Raising(f)
         /\ IF Len(stack) = 1
            THEN /\ stack' = <<>>
                 /\ error' = f.exc
                 /\ pc' = "raised"
            ELSE LET c == stack[Len(stack) - 1] IN
                 /\ stack' = [SubSeq(stack, 1, Len(stack) - 1) EXCEPT ![Len(stack) - 1] =
                                Frame(c.s, SeenAfterCall(c.seen, f.seen), c.k,
                                      c.result, Uncaught(f.exc, c.result, c.seen).exc)]
                 /\ error' = error
                 /\ pc' = pc
    /\ UNCHANGED steps
    /\ resolver_frame

ResolveNext == Enter \/ Literal \/ Return \/ Unwind

\* the interpreter goes on as long as a step is left to take
ResolveSpec == ResolveInit /\ [][ResolveNext]_vars /\ WF_vars(ResolveNext)

----------------------------------------------------------------------------
(* Properties *)

\* run_script is over: it returned or an exception left it
Finished == pc \in {"returned", "raised"}

\* resolve_steps returned the step list
ResolvedOk == pc # "call" /\ error.kind # "ConfigError"

\* every child that has exited so far exited 0
AllExitedZero == \A k \in 1..Len(exits) : exits[k] = 0

\* p is a prefix of s
IsPrefix(p, s) == Len(p) <= Len(s) /\ SubSeq(s, 1, Len(p)) = p

\* s ends with t
IsSuffix(t, s) == Len(t) <= Len(s) /\ SubSeq(s, Len(s) - Len(t) + 1, Len(s)) = t

\* C1: fail-fast.  When the k-th child (step k-1) is the first to exit with a
\* non-zero code, exactly k processes have been spawned, then and ever after,
\* and run_script has returned that exit code.
C1_FailFast ==
    \A k \in 1..Len(exits) :
        (exits[k] # 0 /\ \A j \in 1..(k - 1) : exits[j] = 0) =>
            /\ Len(calls) = k
            /\ pc = "returned"
            /\ ret = exits[k]

\* the second of at least three steps exited 2 and run_script returned
C1_Witness ==
    /\ pc = "returned"
    /\ Len(steps) >= 3
    /\ exits = <<0, 2>>
    /\ ret = 2

\* the k-th call of subprocess.run runs the k-th resolved step: the command
\* string it was built from is the command of that step, followed on the last
\* step only by what run_script appends for the extra arguments
RunsStep(k) ==
    /\ IsPrefix(steps[k][1], calls[k].cmd_str)
    /\ (k < Len(steps) \/ ~Truthy(extra_args)) => calls[k].cmd_str = steps[k][1]

\* every step was spawned, in the order of the step list, and 0 was returned
RanEveryStep ==
    /\ pc = "returned"
    /\ ret = 0
    /\ Len(calls) = Len(steps)
    /\ \A k \in 1..Len(calls) : calls[k].child /\ RunsStep(k)

\* one pair [flag, v] for each v of a list, in the order of the list; nothing
\* for a list that is absent
Pairs(flag, opt) ==
    IF opt.none THEN <<>>
    ELSE Concat([k \in 1..Len(opt.val) |-> <<flag, opt.val[k]>>])

\* the fixed prefix and the global flags of every argument vector
PrefixAndFlags ==
    <<uv, run>> \o Pairs(WithEditable, editable) \o Pairs(Extra, features)

\* the command string of the k-th step as run_script runs it: on the last
\* step, when extra arguments are given, the shell-quoted extra arguments
\* follow the step's command
StepCmdStr(k) ==
    IF Truthy(extra_args) /\ k = Len(steps)
    THEN WithExtraArgs(steps[k][1], extra_args.val)
    ELSE steps[k][1]

\* an exception left _exec_one at the step that follows the children that
\* have exited: either shlex.split refused the command string of that step,
\* nothing was printed or called, and its ValueError left run_script; or
\* subprocess.run was called for that step, started no child, and its
\* ValueError or OSError left run_script.  Every step before it was spawned
\* once, in order.
StoppedByException ==
    LET k == Len(exits) + 1
        parts == shlex_split(StepCmdStr(k))
        started == subprocess_run(PrefixAndFlags \o parts.val,
                                  run_env(steps[k][2]), execvp)
    IN /\ pc = "raised"
       /\ k <= Len(steps)
       /\ \A j \in 1..Len(exits) : calls[j].child /\ RunsStep(j)
       /\ IF ~parts.ok
          THEN /\ Len(calls) = Len(exits)
               /\ error = parts.exc
               /\ error.kind = "ValueError"
          ELSE /\ Len(calls) = k
               /\ ~calls[k].child
               /\ RunsStep(k)
               /\ ~started.ok
               /\ error = started.exc
               /\ error.kind \in {"ValueError", "FileNotFoundError", "PermissionError"}

\* C2 as stated, for the runs in which a child was started: when every child
\* exits 0, run_script spawns one process per resolved step, in order, and
\* returns 0.
C2_AsStated ==
    (Finished /\ ResolvedOk /\ exits # <<>> /\ AllExitedZero) => RanEveryStep

\* C2, amended: when every child that was started exits 0, run_script either
\* spawns one process per resolved step, in the order of the step list, and
\* returns 0, or stops at the first step whose command string shlex.split
\* refuses or for which subprocess.run raises before a child is started: the
\* steps before that one were each spawned once, in order, no later step is
\* tried, and that exception leaves run_script, which returns nothing.
C2_ChainsOrRaises ==
    (Finished /\ ResolvedOk /\ AllExitedZero) =>
        \/ error = NoError /\ RanEveryStep
        \/ error # NoError /\ StoppedByException

\* three or more steps, of different commands, all spawned and exited 0
C2_Witness ==
    /\ pc = "returned"
    /\ ret = 0
    /\ Len(steps) >= 3
    /\ steps[1][1] # steps[2][1]
    /\ Len(calls) = Len(steps)
    /\ AllExitedZero

----------------------------------------------------------------------------
(* The reference graph of the registry *)

\* the scripts a script refers to: the entries of a composite script that
\* are keys of the registry
Refs(n) ==
    IF all_scripts[n].is_composite
    THEN {e \in Range(all_scripts[n].commands) : e \in DOMAIN all_scripts}
    ELSE {}

RECURSIVE Closure(_)
\* the scripts reached from those of S through any number of references
Closure(S) ==
    LET T == S \cup UNION {Refs(n) : n \in S}
    IN IF T = S THEN S ELSE Closure(T)

\* the scripts the expansion of n can reach, n included
ReachableFrom(n) == Closure({n})

\* n refers to itself, directly or through other scripts
OnCycle(n) == n \in Closure(Refs(n))

\* a cycle is reachable from the target
HasCycle == \E n \in ReachableFrom(script.name) : OnCycle(n)

RECURSIVE FirstRevisit(_, _)
RECURSIVE FirstRevisitIn(_, _, _)

\* the script the expansion meets again first: the expansion goes through
\* the entries of a composite script from left to right and into each
\* reference before the next entry; path holds the names of the scripts
\* being expanded, from the target down.  None when the expansion of n ends
\* without meeting a script of its own path.
FirstRevisit(n, path) ==
    IF n \in path THEN Some(n)
    ELSE IF ~all_scripts[n].is_composite THEN None
    ELSE FirstRevisitIn(n, 1, path \cup {n})

\* the same for the entries of n from the k-th on
FirstRevisitIn(n, k, path) ==
    IF k > Len(all_scripts[n].commands) THEN None
    ELSE IF all_scripts[n].commands[k] \notin DOMAIN all_scripts
    THEN FirstRevisitIn(n, k + 1, path)
    ELSE LET met == FirstRevisit(all_scripts[n].commands[k], path)
         IN IF met.none THEN FirstRevisitIn(n, k + 1, path) ELSE met

\* C3: whenever the expansion of the target can reach a script that refers
\* back to itself (directly, a -> a, or through others, a -> b -> a),
\* resolve_steps raises the circular-reference ConfigError, and the name in
\* the error is the name of the script that was revisited: the first script
\* the expansion reaches while that script is on the current expansion path,
\* which is a script reachable from the target that lies on a cycle.
C3_CycleRaises ==
    (pc # "call" /\ HasCycle) =>
        /\ pc = "raised"
        /\ error.kind = "ConfigError"
        /\ ~FirstRevisit(script.name, {}).none
        /\ error.arg = FirstRevisit(script.name, {}).val
        /\ error.arg \in ReachableFrom(script.name)
        /\ OnCycle(error.arg)

\* the error names a script on a cycle of more than one script, another
\* script of that cycle being reachable from the target too
C3_Witness ==
    /\ pc = "raised"
    /\ error.kind = "ConfigError"
    /\ HasCycle
    /\ error.arg \notin Refs(error.arg)
    /\ \E n \in ReachableFrom(script.name) \ {error.arg} : OnCycle(n)

RECURSIVE SumSeq(_)
SumSeq(ns) == IF ns = <<>> THEN 0 ELSE Head(ns) + SumSeq(Tail(ns))

RECURSIVE Branches(_, _)
\* the number of chains of references that lead from n to d (without cycles)
Branches(n, d) ==
    IF n = d THEN 1
    ELSE IF ~all_scripts[n].is_composite THEN 0
    ELSE SumSeq([k \in 1..Len(all_scripts[n].commands) |->
                   IF all_scripts[n].commands[k] \in DOMAIN all_scripts
                   THEN Branches(all_scripts[n].commands[k], d)
                   ELSE 0])

\* how many times a step occurs in a step list
Occurrences(step, stps) == Cardinality({k \in 1..Len(stps) : stps[k] = step})

\* C4: when no cycle is reachable from the target, resolve_steps raises no
\* circular-reference error, and the step of every simple script d occurs in
\* the result once for each chain of references from the target to d (twice
\* when a refers to b and c and both refer to d).  The envs of the registry
\* differ from script to script, so a step tells the script it came from.
C4_NoFalseCycle ==
    (pc # "call" /\ ~HasCycle) =>
        /\ error.kind # "ConfigError"
        /\ \A d \in DOMAIN all_scripts :
             ~all_scripts[d].is_composite =>
                 Occurrences(<<all_scripts[d].commands[1], all_scripts[d].env>>, steps)
                     = Branches(script.name, d)

\* a diamond: two entries of the target refer to different scripts, both of
\* which reach the same simple script
C4_Witness ==
    /\ pc # "call"
    /\ ~HasCycle
    /\ \E d \in DOMAIN all_scripts, k1, k2 \in 1..Len(script.commands) :
         /\ ~all_scripts[d].is_composite
         /\ script.commands[k1] # script.commands[k2]
         /\ script.commands[k1] \in DOMAIN all_scripts
         /\ script.commands[k2] \in DOMAIN all_scripts
         /\ d \in Refs(script.commands[k1])
         /\ d \in Refs(script.commands[k2])
         /\ Occurrences(<<all_scripts[d].commands[1], all_scripts[d].env>>, steps) = 2

\* C5: when the resolution of the target raises the circular-reference
\* error, run_script is left by that error and has spawned nothing: no call
\* of subprocess.run, no step list, no child, whatever precedes the cyclic
\* reference in the composite script.
C5_CycleSpawnsNothing ==
    HasCycle =>
        /\ calls = <<>>
        /\ steps = <<>>
        /\ running = 0
        /\ pc \in {"call", "raised"}
        /\ pc = "raised" => error.kind = "ConfigError"

\* the target starts with a literal command and reaches the cycle only
\* through its second entry; the error has left run_script
C5_Witness ==
    /\ pc = "raised"
    /\ error.kind = "ConfigError"
    /\ script.is_composite
    /\ Len(script.commands) = 2
    /\ script.commands[1] \notin DOMAIN all_scripts
    /\ script.commands[2] \in DOMAIN all_scripts
    /\ calls = <<>>

\* the commands of a step list
Cmds(stps) == [k \in 1..Len(stps) |-> stps[k][1]]

\* C6: for an acyclic composite target the commands of the result are the
\* concatenation, in declaration order, of: for an entry that is a key of the
\* registry, the commands of the resolved steps of that script; for any other
\* entry, the entry itself.  So an entry that is a key is never a command.
C6_Concatenation ==
    (pc # "call" /\ ~HasCycle /\ script.is_composite) =>
        Cmds(steps) =
            Concat([k \in 1..Len(script.commands) |->
                      IF script.commands[k] \in DOMAIN all_scripts
                      THEN Cmds(resolve_steps(all_scripts[script.commands[k]],
                                              all_scripts, {}).val)
                      ELSE <<script.commands[k]>>])

\* a literal entry followed by a reference to a composite script that
\* resolves to at least one step
C6_Witness ==
    /\ pc # "call"
    /\ ~HasCycle
    /\ script.is_composite
    /\ Len(script.commands) = 2
    /\ script.commands[1] \notin DOMAIN all_scripts
    /\ script.commands[2] \in DOMAIN all_scripts
    /\ all_scripts[script.commands[2]].is_composite
    /\ Len(steps) >= 2

\* the script n holds the command c itself: as its command line, or as a
\* literal entry
Owns(n, c) ==
    /\ c \in Range(all_scripts[n].commands)
    /\ all_scripts[n].is_composite => c \notin DOMAIN all_scripts

\* C7: every step of the result carries exactly the env of a script, reachable
\* from the target, that holds the step's command itself; a literal entry of
\* the target carries the target's env, and the step of a simple script the
\* target refers to carries that script's env.
C7_EnvOfOwner ==
    (pc # "call" /\ error.kind # "ConfigError") =>
        /\ \A k \in 1..Len(steps) :
             \E n \in ReachableFrom(script.name) :
                 Owns(n, steps[k][1]) /\ steps[k][2] = all_scripts[n].env
        /\ script.is_composite =>
             \A k \in 1..Len(script.commands) :
                 LET item == script.commands[k] IN
                 /\ item \notin DOMAIN all_scripts =>
                        <<item, script.env>> \in Range(steps)
                 /\ (item \in DOMAIN all_scripts /\ ~all_scripts[item].is_composite) =>
                        <<all_scripts[item].commands[1], all_scripts[item].env>>
                            \in Range(steps)

\* a composite target with an env of its own, a literal entry and a
\* reference to a simple script with another env
C7_Witness ==
    /\ pc # "call"
    /\ script.is_composite
    /\ script.env # EmptyEnv
    /\ Len(script.commands) = 2
    /\ script.commands[2] \in DOMAIN all_scripts
    /\ LET r == all_scripts[script.commands[2]] IN
         /\ ~r.is_composite
         /\ r.env # script.env
         /\ r.env # EmptyEnv
         /\ steps = << <<script.commands[1], script.env>>, <<r.commands[1], r.env>> >>

\* C8: a simple script with commands = [c] resolves to the single step
\* (c, script.env) in every registry, also when c is the name of a script.
C8_SimpleScript ==
    (pc # "call" /\ ~script.is_composite) =>
        /\ error.kind # "ConfigError"
        /\ steps = << <<script.commands[1], script.env>> >>

\* a simple target whose command is the name of a script has been resolved
C8_Witness ==
    /\ pc # "call"
    /\ ~script.is_composite
    /\ script.commands[1] \in DOMAIN all_scripts
    /\ steps = << <<script.commands[1], script.env>> >>

\* what the k-th argument vector holds after the prefix and the global flags
AfterFlags(k) == SubSeq(calls[k].args, Len(PrefixAndFlags) + 1, Len(calls[k].args))

\* the k-th step is the last one and extra arguments are given
CarriesExtraArgs(k) == Truthy(extra_args) /\ k = Len(steps)

\* C9 as stated: the argument vector of every spawned step is the prefix,
\* the --with-editable pairs, the --extra pairs, then the tokens of the
\* step's command, and nothing else.
C9_AsStated ==
    \A k \in 1..Len(calls) :
        /\ shlex_split(steps[k][1]).ok
        /\ calls[k].args = PrefixAndFlags \o shlex_split(steps[k][1]).val

\* C9, amended: the argument vector of every spawned step begins with
\* ["uv", "run"], one ["--with-editable", p] per editable path in order, then
\* one ["--extra", n] per feature name in order.  For every step but a last
\* step given extra arguments, the tokens of the step's command follow and
\* nothing else.  For the last step given extra arguments, whenever
\* shlex.split accepts the step's command on its own, the tokens of the
\* command follow and then the extra arguments as given, and nothing else.
\* (Of a last step whose command shlex.split refuses on its own, spawned
\* all the same with extra arguments, only the beginning is stated here.)
C9_ArgumentVector ==
    \A k \in 1..Len(calls) :
        LET alone == shlex_split(steps[k][1])
        IN /\ IsPrefix(PrefixAndFlags, calls[k].args)
           /\ ~CarriesExtraArgs(k) => alone.ok /\ AfterFlags(k) = alone.val
           /\ (CarriesExtraArgs(k) /\ alone.ok) =>
                  AfterFlags(k) = alone.val \o extra_args.val

\* a step that is neither the first nor the last has been spawned with two
\* editable paths and two feature names
C9_Witness ==
    /\ Len(steps) >= 3
    /\ Len(calls) = 2
    /\ ~editable.none /\ Len(editable.val) = 2
    /\ ~features.none /\ Len(features.val) = 2
    /\ calls[2].args =
         <<uv, run, WithEditable, Pkg1, WithEditable, Pkg2, Extra, Feat1, Extra, Feat2>>
             \o shlex_split(steps[2][1]).val

\* the extra arguments go to the last step and to no other: the vector of a
\* step before the last holds the tokens of its own command after the flags
C10_Placement ==
    Truthy(extra_args) =>
        \A k \in 1..Len(calls) :
            k < Len(steps) =>
                /\ shlex_split(steps[k][1]).ok
                /\ calls[k].args = PrefixAndFlags \o shlex_split(steps[k][1]).val

\* C10 as stated: with extra arguments given, the vector of a step before the
\* last holds the prefix, the global flags and the tokens of its own command
\* only, and the vector of the last step holds, after the flags, the tokens
\* of its own command and then, at its end, the extra arguments as they were
\* given.
C10_AsStated ==
    Truthy(extra_args) =>
        \A k \in 1..Len(calls) :
            LET alone == shlex_split(steps[k][1])
            IN /\ IsPrefix(PrefixAndFlags, calls[k].args)
               /\ k < Len(steps) => alone.ok /\ AfterFlags(k) = alone.val
               /\ k = Len(steps) =>
                      /\ IsSuffix(extra_args.val, AfterFlags(k))
                      /\ alone.ok => AfterFlags(k) = alone.val \o extra_args.val

\* C11 as stated: for the command of the last step and the extra arguments
\* given, tokenizing the command followed by the shell-quoted extra arguments
\* yields the tokens of the command tokenized on its own followed by the
\* extra arguments, each one element equal to the original, in order; a
\* command shlex.split refuses on its own is refused with them too.
C11_AsStated ==
    (ResolvedOk /\ steps # <<>> /\ Truthy(extra_args)) =>
        LET command == steps[Len(steps)][1]
            alone == shlex_split(command)
            whole == shlex_split(WithExtraArgs(command, extra_args.val))
        IN IF alone.ok
           THEN whole = Ok(alone.val \o extra_args.val)
           ELSE ~whole.ok

\* the dict e holds each of its keys once
IsDict(e) == Cardinality(DictKeys(e)) = Len(e)

\* C12: a step with an empty env is spawned with env=None, never with an
\* explicit environment; a step with a non-empty env is spawned with a dict
\* whose keys are those of os.environ and those of the step's env, holding
\* the step's value for every key of the step's env and the value of
\* os.environ for every other key.
C12_EnvOverlay ==
    \A k \in 1..Len(calls) :
        LET env == steps[k][2]
            given == calls[k].env
        IN IF env = EmptyEnv
           THEN given = None
           ELSE /\ ~given.none
                /\ IsDict(given.val)
                /\ DictKeys(given.val) = DictKeys(os_environ) \cup DictKeys(env)
                /\ \A key \in DictKeys(env) :
                       DictGet(given.val, key) = DictGet(env, key)
                /\ \A key \in DictKeys(os_environ) \ DictKeys(env) :
                       DictGet(given.val, key) = DictGet(os_environ, key)

\* a step whose env sets a variable of os.environ to another value and adds a
\* new one has been spawned after a step with an empty env
C12_Witness ==
    \E k \in 1..Len(calls), j \in 1..Len(calls) :
        /\ j < k
        /\ steps[j][2] = EmptyEnv
        /\ calls[j].env = None
        /\ \E key \in DictKeys(steps[k][2]) \cap DictKeys(os_environ) :
               DictGet(steps[k][2], key) # DictGet(os_environ, key)
        /\ DictKeys(steps[k][2]) \ DictKeys(os_environ) # {}
        /\ DictKeys(os_environ) \ DictKeys(steps[k][2]) # {}
        /\ ~calls[k].env.none

\* C13 as stated: every record load_config places in the registry, whatever
\* the form of the script's value (string, array, table), has a commands list
\* that is not empty.
C13_AsStated ==
    /\ \A k \in 1..Len(cfg_scripts) : cfg_scripts[k][2].commands # <<>>
    /\ ~config.none =>
         \A k \in 1..Len(config.val.scripts) : config.val.scripts[k][2].commands # <<>>

\* the number of children the calls of subprocess.run started
Children(cs) == Cardinality({k \in 1..Len(cs) : cs[k].child})

\* C14: execution is sequential.  At most one child exists at any moment,
\* and while it exists run_script is inside subprocess.run, waiting for it;
\* whenever a command is echoed or a child is spawned, no child exists,
\* every child spawned before has exited, all of them with code 0, and the
\* step spawned is the one after them.
C14_Sequential ==
    [][ /\ running' \in {0, 1}
        /\ running' = Children(calls') - Len(exits')
        /\ running' = 1 => pc' = "wait"
        /\ (calls' # calls \/ stderr' # stderr) =>
             /\ running = 0
             /\ Len(exits) = Len(calls)
             /\ AllExitedZero
             /\ Len(calls') = Len(calls) + 1
             /\ RunsStep(Len(exits) + 1)' ]_vars

\* the third step runs, echoed, after the first two children exited 0
C14_Witness ==
    /\ verbose
    /\ Len(calls) = 3
    /\ Len(stderr) = 3
    /\ exits = <<0, 0>>
    /\ running = 1

\* C15: no step of a resolution or a run changes the registry: its keys stay
\* the same and every record keeps its name, commands, env, help text and
\* composite flag, and so does the target; also when a step's env is laid
\* over os.environ, when a child exits non-zero and when a cycle is found.
C15_RegistryUnchanged ==
    [][ /\ DOMAIN all_scripts' = DOMAIN all_scripts
        /\ \A n \in DOMAIN all_scripts :
             /\ all_scripts'[n].name = all_scripts[n].name
             /\ all_scripts'[n].commands = all_scripts[n].commands
             /\ all_scripts'[n].env = all_scripts[n].env
             /\ all_scripts'[n].help_text = all_scripts[n].help_text
             /\ all_scripts'[n].is_composite = all_scripts[n].is_composite
        /\ script' = script ]_vars

\* a run that laid the env of a step over os.environ, a key of both among
\* them, and then stopped on a non-zero exit
C15_Witness ==
    /\ pc = "returned"
    /\ ret # 0
    /\ \E k \in 1..Len(calls) :
         /\ ~calls[k].env.none
         /\ DictKeys(steps[k][2]) \cap DictKeys(os_environ) # {}
         /\ \E n \in DOMAIN all_scripts : all_scripts[n].env = steps[k][2]

\* the top-level call of resolve_steps is over
ResolveDone == pc \in {"resolved", "raised"} /\ stack = <<>>

\* the names of the scripts of the first d active calls: the expansion path
PathNames(d) == {stack[j].s.name : j \in 1..d}

\* the result of the call-by-call resolution is that of resolve_steps
\* evaluated as a whole
ResolveAgrees ==
    ResolveDone =>
        LET r == resolve_steps(script, all_scripts, {}) IN
        /\ r.ok <=> pc = "resolved"
        /\ r.ok => steps = r.val
        /\ ~r.ok => error = r.exc

\* C16: a top-level call of resolve_steps comes to an end, with a step list
\* or with the circular-reference error.  All along, the set of every active
\* call holds exactly the names of the scripts on the expansion path down to
\* it; the calls that went past the membership test are of different
\* scripts, so there are no more of them than names; and the depth, with the
\* call that finds the cycle, never exceeds the size of the registry plus
\* one.
C16_Terminates ==
    /\ <>ResolveDone
    /\ [](ResolveDone =>
            \/ pc = "resolved" /\ error = NoError
            \/ pc = "raised" /\ error.kind = "ConfigError" /\ steps = <<>>)
    /\ [](\A d \in 1..Len(stack) : stack[d].seen = PathNames(d))
    /\ [](\A d, e \in 1..Len(stack) :
            (d < e /\ stack[d].s.name = stack[e].s.name) =>
                (e = Len(stack) /\ Raising(stack[e])))
    /\ [](Len(stack) <= Cardinality(DOMAIN all_scripts \cup {script.name}) + 1)
    /\ [](Cardinality({d \in 1..Len(stack) : ~Raising(stack[d])})
             <= Cardinality(DOMAIN all_scripts \cup {script.name}))

\* as many calls are active as the registry has scripts, and one more that
\* has found the cycle
C16_Witness ==
    /\ pc = "resolve"
    /\ Len(stack) = Cardinality(DOMAIN all_scripts) + 1
    /\ Raising(stack[Len(stack)])
    /\ \A d \in 1..(Len(stack) - 1) : ~Raising(stack[d])

\* every record of the registry has a commands list that is not empty
AllNonEmpty == \A n \in DOMAIN all_scripts : all_scripts[n].commands # <<>>

\* C17 as stated: when every record of the registry has a non-empty commands
\* list, the resolution of an acyclic target returns at least one step; and
\* run_script returns 0 only after it has spawned at least one process and,
\* when extra arguments are given, only after a process was passed the extra
\* arguments, as the last elements of its argument vector.
C17_AsStated ==
    AllNonEmpty =>
        /\ (pc # "call" /\ ~HasCycle) => (ResolvedOk /\ steps # <<>>)
        /\ (pc = "returned" /\ ret = 0) =>
             /\ calls # <<>>
             /\ Truthy(extra_args) =>
                    \E k \in 1..Len(calls) : IsSuffix(extra_args.val, calls[k].args)

====
